---- MODULE Spec2Model ----
(***************************************************************************)
(* A model of skiplist<Key, T> (src/skiplist.hpp): an ordered map kept in  *)
(* a skip list with two sentinels, per-level forward links, one backward   *)
(* link per node, and randomly drawn node heights.                         *)
(*                                                                         *)
(* Memory is a function from cells (addresses) to node records.  Pointers  *)
(* are cell numbers; nullptr is cell number 0, which holds no node.        *)
(* Assertions are those of a build without NDEBUG: a failed assert ends    *)
(* the program, which the model records in `fault` and then stops.         *)
(***************************************************************************)
EXTENDS Integers, Sequences, FiniteSets, TLC

\* ---------------------------------------------------------------- constants

kMaxHeight == 20

kBranching == 4

\* ------------------------------------------------------------------- bounds

\* Key is an integer type; the keys used are 0..MaxKey (0 is also the key
\* value_type() gives the sentinels)
MaxKey == 2

\* the generator yields at most MaxZeroRun consecutive draws divisible by
\* kBranching, or else the run of kMaxHeight-1 of them that exhausts the loop
MaxZeroRun == 1

Keys == 0..MaxKey

\* the template is instantiated with T = bool
Values == BOOLEAN

\* value_type(): the value-initialised pair held by both sentinels
DefaultKey == 0

\* mapped_type(): a value-initialised bool
DefaultValue == FALSE

\* ------------------------------------------------------------------- memory

nullptr == 0

\* the two sentinels, allocated by the constructor and never moved
head_ == 1

tail_ == 2

max_height_ == kMaxHeight

\* operator new may return any cell that is not live.  The program only ever
\* tests addresses for equality, so behaviours that differ by a renaming of
\* cells are indistinguishable; the model keeps one representative of each:
\* the node built for key k gets cell NodeCell(k), or SpareCell while that
\* cell is still live (emplace of a key that is already stored).
NodeCell(k) == tail_ + 1 + k

SpareCell == tail_ + 2 + MaxKey

Cells == head_..SpareCell

\* a cell that holds no object
FreeCell ==
  [live |-> FALSE, key |-> DefaultKey, value |-> DefaultValue,
   height_ |-> 0, forwards_ |-> << >>, backward_ |-> nullptr]

operator_new(mem, k) ==
  IF ~mem[NodeCell(k)].live THEN NodeCell(k) ELSE SpareCell

operator_delete(mem, p) == [mem EXCEPT ![p] = FreeCell]

\* Node::Node(height, args...)
Node(h, k, v) ==
  [live |-> TRUE, key |-> k, value |-> v, height_ |-> h,
   forwards_ |-> [i \in 1..h |-> nullptr], backward_ |-> nullptr]

\* Node::forward(height); level i is element i+1 of forwards_
forward(mem, p, i) == mem[p].forwards_[i + 1]

set_forward(mem, p, i, q) == [mem EXCEPT ![p].forwards_[i + 1] = q]

backward(mem, p) == mem[p].backward_

set_backward(mem, p, q) == [mem EXCEPT ![p].backward_ = q]

next(mem, p) == mem[p].forwards_[1]

height(mem, p) == mem[p].height_

key(mem, p) == mem[p].key

\* ---------------------------------------------------------------- variables

VARIABLES
  mem,     \* the heap: Cells -> node record
  size_,   \* skiplist::size_
  fault,   \* the assertion that ended the program, or NoFault
  last,    \* the latest call: its name, arguments and what it returned
  rnd_,    \* skiplist::rnd_: the generator's state, as far as Seeded or not
  amap     \* the abstract sorted map driven by the same calls, with its flag

vars == <<mem, size_, fault, last, rnd_, amap>>

NoFault == "none"

\* ------------------------------------------------------- height randomizer

\* rnd_(0xdeadbeef): the state the constructor seeds the generator with
Seeded == "0xdeadbeef"

\* the state of the generator once rnd_() has been called: mt19937 does not
\* come back to the seeded state within its period of 2^19937 - 1 draws
Advanced == "advanced"

\* What rnd_() yields during one call: n draws divisible by kBranching, then
\* one that is not.
DrawRun(n) == [i \in 1..(n + 1) |-> IF i <= n THEN kBranching ELSE kBranching + 1]

DrawSeqs == {DrawRun(n) : n \in (0..MaxZeroRun) \cup {kMaxHeight - 1}}

RECURSIVE random_height_loop(_, _, _)
\* the while loop of random_height: draws[i] is the i-th value of rnd_()
random_height_loop(h, draws, i) ==
  IF h < kMaxHeight /\ draws[i] % kBranching = 0
  THEN random_height_loop(h + 1, draws, i + 1)
  ELSE h

\* the height random_height computes, before its assertions
random_height(draws) == random_height_loop(1, draws, 1)

\* assert(height > 0); assert(height < kMaxHeight);
random_height_asserts(h) == h > 0 /\ h < kMaxHeight

\* ---------------------------------------------------------- index traversal

RECURSIVE fge_advance(_, _, _, _)
\* mutant: the loop also steps over a key equal to k
fge_advance_past_equal(m, p, i, k) ==
  LET nxt == forward(m, p, i)
  IN  IF nxt # tail_ /\ key(m, nxt) <= k
      THEN fge_advance(m, nxt, i, k)
      ELSE p

\* the inner while loop at level i: go forward until tail_ or a key >= k
fge_advance(m, p, i, k) ==
  LET nxt == forward(m, p, i)
  IN  IF nxt # tail_ /\ key(m, nxt) < k
      THEN fge_advance(m, nxt, i, k)
      ELSE p

RECURSIVE fge_levels(_, _, _, _, _)
\* mutant: prevs[i] records the node the level was entered at
fge_levels_records_entry(m, p, i, k, prevs) ==
  LET q == fge_advance(m, p, i, k)
      recorded == [prevs EXCEPT ![i + 1] = p]
  IN  IF i = 0
      THEN [p |-> q, prevs |-> recorded]
      ELSE fge_levels(m, q, i - 1, k, recorded)

\* the for loop from level i down to level 0, recording prevs[i]
fge_levels(m, p, i, k, prevs) ==
  LET q == fge_advance(m, p, i, k)
      recorded == [prevs EXCEPT ![i + 1] = q]
  IN  IF i = 0
      THEN [p |-> q, prevs |-> recorded]
      ELSE fge_levels(m, q, i - 1, k, recorded)

\* mutant: returns the node reached instead of its successor
find_greater_or_equal_prev(m, k) ==
  LET r == fge_levels(m, head_, max_height_ - 1, k,
                      [i \in 1..max_height_ |-> nullptr])
  IN  [node |-> r.p, prevs |-> r.prevs]

\* returns the node found and prevs (prevs[i + 1] is the code's prevs[i])
find_greater_or_equal(m, k) ==
  LET r == fge_levels(m, head_, max_height_ - 1, k,
                      [i \in 1..max_height_ |-> nullptr])
  IN  [node |-> next(m, r.p), prevs |-> r.prevs]

\* ------------------------------------------------------------- construction

RECURSIVE ctor_links(_, _)
\* the constructor's loop: head_->set_forward(i, tail_); tail_->set_forward(i, nullptr)
ctor_links(m, i) ==
  IF i < kMaxHeight
  THEN ctor_links(set_forward(set_forward(m, head_, i, tail_), tail_, i, nullptr), i + 1)
  ELSE m

\* skiplist::skiplist(): the heap after construction
skiplist ==
  LET m0 == [c \in Cells |-> FreeCell]
      m1 == [m0 EXCEPT ![head_] = Node(kMaxHeight, DefaultKey, DefaultValue),
                       ![tail_] = Node(kMaxHeight, DefaultKey, DefaultValue)]
      m2 == ctor_links(m1, 0)
  IN  set_backward(set_backward(m2, head_, nullptr), tail_, head_)

\* ------------------------------------------------------------------- insert

\* what a call hands back: the heap and size_ it leaves, the node of the
\* iterator it returns, its bool, and the assertion that failed (or NoFault)
Outcome(m, sz, p, ins, f) ==
  [mem |-> m, size_ |-> sz, node |-> p, inserted |-> ins, fault |-> f,
   drew |-> FALSE]

\* the outcome of a call that has run random_height, which calls rnd_()
Drew(o) == [o EXCEPT !.drew = TRUE]

\* mutant: the successor's backward link is not redirected to the new node
link_backward_one_way(m, node, prevs) == set_backward(m, node, prevs[1])

\* node->set_backward(prevs[0]); prevs[0]->next()->set_backward(node);
link_backward(m, node, prevs) ==
  LET m1 == set_backward(m, node, prevs[1])
  IN  set_backward(m1, next(m1, prevs[1]), node)

RECURSIVE link_forward(_, _, _, _, _)
\* mutant: the loop runs to i <= height, linking the node one level too high
link_forward_one_more(m, node, prevs, i, h) ==
  IF i <= h
  THEN link_forward(
         set_forward(set_forward(m, node, i, forward(m, prevs[i + 1], i)),
                     prevs[i + 1], i, node),
         node, prevs, i + 1, h)
  ELSE m

\* for (i = 0; i < height; ++i) { node->set_forward(i, prevs[i]->forward(i));
\*                                prevs[i]->set_forward(i, node); }
link_forward(m, node, prevs, i, h) ==
  IF i < h
  THEN link_forward(
         set_forward(set_forward(m, node, i, forward(m, prevs[i + 1], i)),
                     prevs[i + 1], i, node),
         node, prevs, i + 1, h)
  ELSE m

\* mutant: a duplicate key has its stored value overwritten
insert_or_assign(m, sz, k, v, draws) ==
  LET r == find_greater_or_equal(m, k)
      h == random_height(draws)
      node == operator_new(m, k)
      m1 == [m EXCEPT ![node] = Node(h, k, v)]
      m2 == link_backward(m1, node, r.prevs)
      m3 == link_forward(m2, node, r.prevs, 0, h)
  IN  IF r.node # tail_ /\ key(m, r.node) = k
      THEN Outcome([m EXCEPT ![r.node].value = v], sz, r.node, FALSE, NoFault)
      ELSE IF ~random_height_asserts(h)
      THEN Drew(Outcome(m, sz, nullptr, FALSE, "random_height"))
      ELSE Drew(Outcome(m3, sz + 1, node, TRUE, NoFault))

insert(m, sz, k, v, draws) ==
  LET r == find_greater_or_equal(m, k)
      h == random_height(draws)
      node == operator_new(m, k)
      m1 == [m EXCEPT ![node] = Node(h, k, v)]
      m2 == link_backward(m1, node, r.prevs)
      m3 == link_forward(m2, node, r.prevs, 0, h)
  IN  IF r.node # tail_ /\ key(m, r.node) = k
      THEN Outcome(m, sz, r.node, FALSE, NoFault)
      ELSE IF ~random_height_asserts(h)
      THEN Drew(Outcome(m, sz, nullptr, FALSE, "random_height"))
      ELSE Drew(Outcome(m3, sz + 1, node, TRUE, NoFault))

\* mutant: operator[] stores the default value over the one that is there
subscript_resets(m, sz, k, draws) == insert_or_assign(m, sz, k, DefaultValue, draws)

\* operator[]: insert(value_type{key, mapped_type()}), then it.first->second
subscript(m, sz, k, draws) == insert(m, sz, k, DefaultValue, draws)

\* ------------------------------------------------------------------ emplace

\* mutant: the node built for a key that is already stored is not deleted
emplace_impl_leaks(m, sz, k, v, draws) ==
  LET h == random_height(draws)
      node == operator_new(m, k)
      m1 == [m EXCEPT ![node] = Node(h, k, v)]
      r == find_greater_or_equal(m1, key(m1, node))
      m2 == link_backward(m1, node, r.prevs)
      m3 == link_forward(m2, node, r.prevs, 0, h)
  IN  IF ~random_height_asserts(h)
      THEN Drew(Outcome(m, sz, nullptr, FALSE, "random_height"))
      ELSE IF r.node # tail_ /\ key(m1, r.node) = key(m1, node)
      THEN Drew(Outcome(m1, sz, r.node, FALSE, NoFault))
      ELSE Drew(Outcome(m3, sz + 1, node, TRUE, NoFault))

emplace_impl(m, sz, k, v, draws) ==
  LET h == random_height(draws)
      node == operator_new(m, k)
      m1 == [m EXCEPT ![node] = Node(h, k, v)]
      r == find_greater_or_equal(m1, key(m1, node))
      m2 == link_backward(m1, node, r.prevs)
      m3 == link_forward(m2, node, r.prevs, 0, h)
  IN  IF ~random_height_asserts(h)
      THEN Drew(Outcome(m, sz, nullptr, FALSE, "random_height"))
      ELSE IF r.node # tail_ /\ key(m1, r.node) = key(m1, node)
      THEN Drew(Outcome(operator_delete(m1, node), sz, r.node, FALSE, NoFault))
      ELSE Drew(Outcome(m3, sz + 1, node, TRUE, NoFault))

emplace(m, sz, k, v, draws) == emplace_impl(m, sz, k, v, draws)

\* ------------------------------------------------------- allocation failure

\* where a call of insert or emplace allocates: the vector prevs
\* (prevs.resize in find_greater_or_equal) and the node (new Node, whose
\* constructor allocates forwards_; if that throws, the node's storage is
\* released by the new-expression)
AllocationPoints == {"prevs", "node"}

\* insert when the allocation at point `at` throws std::bad_alloc, if the
\* call gets there
insert_bad_alloc(m, sz, k, v, draws, at) ==
  LET r == find_greater_or_equal(m, k)
      h == random_height(draws)
  IN  IF at = "prevs"
      THEN Outcome(m, sz, nullptr, FALSE, "bad_alloc")
      ELSE IF r.node # tail_ /\ key(m, r.node) = k
      THEN Outcome(m, sz, r.node, FALSE, NoFault)
      ELSE IF ~random_height_asserts(h)
      THEN Drew(Outcome(m, sz, nullptr, FALSE, "random_height"))
      ELSE Drew(Outcome(m, sz, nullptr, FALSE, "bad_alloc"))

\* emplace_impl when the allocation at point `at` throws: the node is built
\* before prevs is, and nothing deletes it when the exception passes
emplace_impl_bad_alloc(m, sz, k, v, draws, at) ==
  LET h == random_height(draws)
      node == operator_new(m, k)
      m1 == [m EXCEPT ![node] = Node(h, k, v)]
  IN  IF ~random_height_asserts(h)
      THEN Drew(Outcome(m, sz, nullptr, FALSE, "random_height"))
      ELSE IF at = "node"
      THEN Drew(Outcome(m, sz, nullptr, FALSE, "bad_alloc"))
      ELSE Drew(Outcome(m1, sz, nullptr, FALSE, "bad_alloc"))

\* -------------------------------------------------------------------- erase

RECURSIVE unlink_forward(_, _, _, _)
\* mutant: the node is unlinked from level 0 only
unlink_forward_level0(m, p, prevs, i) ==
  set_forward(m, prevs[1], 0, forward(m, p, 0))

\* for (i = 0; i < p->height(); i++) prevs[i]->set_forward(i, p->forward(i));
unlink_forward(m, p, prevs, i) ==
  IF i < height(m, p)
  THEN unlink_forward(set_forward(m, prevs[i + 1], i, forward(m, p, i)), p, prevs, i + 1)
  ELSE m

\* mutant: the test `p->key() > key` is missing, so the successor is erased
erase_takes_successor(m, sz, k) ==
  LET r == find_greater_or_equal(m, k)
      p == r.node
      m1 == set_backward(m, next(m, p), backward(m, p))
      m2 == unlink_forward(m1, p, r.prevs, 0)
  IN  IF p = tail_
      THEN Outcome(m, sz, nullptr, FALSE, NoFault)
      ELSE Outcome(operator_delete(m2, p), sz - 1, nullptr, FALSE, NoFault)

\* mutant: the test is `p->key() >= key`, so a stored key is never erased
erase_skips_found(m, sz, k) ==
  LET r == find_greater_or_equal(m, k)
      p == r.node
      m1 == set_backward(m, next(m, p), backward(m, p))
      m2 == unlink_forward(m1, p, r.prevs, 0)
  IN  IF p = tail_ \/ key(m, p) >= k
      THEN Outcome(m, sz, nullptr, FALSE, NoFault)
      ELSE Outcome(operator_delete(m2, p), sz - 1, nullptr, FALSE, NoFault)

\* mutant: the successor's backward link is left pointing at the erased node
erase_keeps_backward(m, sz, k) ==
  LET r == find_greater_or_equal(m, k)
      p == r.node
      m2 == unlink_forward(m, p, r.prevs, 0)
  IN  IF p = tail_ \/ key(m, p) > k
      THEN Outcome(m, sz, nullptr, FALSE, NoFault)
      ELSE Outcome(operator_delete(m2, p), sz - 1, nullptr, FALSE, NoFault)

\* mutant: size_ is decremented before the key is looked up
erase_counts_absent(m, sz, k) ==
  LET r == find_greater_or_equal(m, k)
      p == r.node
      m1 == set_backward(m, next(m, p), backward(m, p))
      m2 == unlink_forward(m1, p, r.prevs, 0)
  IN  IF p = tail_ \/ key(m, p) > k
      THEN Outcome(m, sz - 1, nullptr, FALSE, NoFault)
      ELSE Outcome(operator_delete(m2, p), sz - 1, nullptr, FALSE, NoFault)

erase(m, sz, k) ==
  LET r == find_greater_or_equal(m, k)
      p == r.node
      m1 == set_backward(m, next(m, p), backward(m, p))
      m2 == unlink_forward(m1, p, r.prevs, 0)
  IN  IF p = tail_ \/ key(m, p) > k
      THEN Outcome(m, sz, nullptr, FALSE, NoFault)
      ELSE Outcome(operator_delete(m2, p), sz - 1, nullptr, FALSE, NoFault)

\* Iterator::operator-> and operator*: &(node_->value_), with no assertion
iterator_deref(m, it) == <<m[it].key, m[it].value>>

\* erase(iterator it). The definition in skiplist.hpp takes the successor
\* with `it->node_->next()`, which names a member of the pair and does not
\* compile once the function is used; the erase(iterator) a program can call
\* is the other variant's: the asserts, then `return erase(it->first)`, of
\* type void, so no iterator comes back (nullptr stands for none).
erase_iterator(m, sz, it) ==
  LET r == erase(m, sz, iterator_deref(m, it)[1])
  IN  IF it = tail_
      THEN Outcome(m, sz, nullptr, FALSE, "erase: it != end()")
      ELSE Outcome(r.mem, r.size_, nullptr, FALSE, NoFault)

\* -------------------------------------------------------------------- clear

RECURSIVE clear_nodes(_, _)
\* mutant: the nodes are unlinked but not deleted
clear_nodes_leaks(m, node) == m

\* while (node != tail_) { p = node->next(); delete node; node = p; }
clear_nodes(m, node) ==
  IF node # tail_
  THEN clear_nodes(operator_delete(m, node), next(m, node))
  ELSE m

RECURSIVE clear_links(_, _)
\* for (i = 0; i < kMaxHeight; i++) head_->set_forward(i, tail_);
clear_links(m, i) ==
  IF i < kMaxHeight
  THEN clear_links(set_forward(m, head_, i, tail_), i + 1)
  ELSE m

\* mutant: tail_'s backward link is reset to nullptr instead of head_
clear_unhooks_tail(m, sz) ==
  LET m1 == clear_nodes(m, next(m, head_))
      m2 == clear_links(m1, 0)
  IN  Outcome(set_backward(m2, tail_, nullptr), 0, nullptr, FALSE, NoFault)

\* mutant: size_ is not reset
clear_keeps_size(m, sz) ==
  LET m1 == clear_nodes(m, next(m, head_))
      m2 == clear_links(m1, 0)
  IN  Outcome(set_backward(m2, tail_, head_), sz, nullptr, FALSE, NoFault)

clear(m, sz) ==
  LET m1 == clear_nodes(m, next(m, head_))
      m2 == clear_links(m1, 0)
  IN  Outcome(set_backward(m2, tail_, head_), 0, nullptr, FALSE, NoFault)

\* ------------------------------------------------------------------ queries

size(sz) == sz

empty(sz) == sz = 0

begin(m) == next(m, head_)

end == tail_

lower_bound(m, k) == find_greater_or_equal(m, k).node

find(m, k) ==
  LET it == lower_bound(m, k)
  IN  IF it # end /\ key(m, it) = k THEN it ELSE end

\* Iterator::operator++: the two asserts, then node_ = node_->next()
iterator_increment(m, it) ==
  IF it = nullptr THEN [node |-> it, fault |-> "operator++: node_ != nullptr"]
  ELSE IF it = tail_ THEN [node |-> it, fault |-> "operator++: node_ != tail_"]
  ELSE [node |-> next(m, it), fault |-> NoFault]

\* mutant: operator-- without its second assertion
iterator_decrement_unchecked(m, it) ==
  IF it = nullptr THEN [node |-> it, fault |-> "operator--: node_ != nullptr"]
  ELSE [node |-> backward(m, it), fault |-> NoFault]

\* Iterator::operator--: the two asserts, then node_ = node_->backward()
iterator_decrement(m, it) ==
  IF it = nullptr THEN [node |-> it, fault |-> "operator--: node_ != nullptr"]
  ELSE IF backward(m, it) = head_
  THEN [node |-> it, fault |-> "operator--: node_->backward() != head_"]
  ELSE [node |-> backward(m, it), fault |-> NoFault]

\* mutant: the iterator is stepped whether or not its key equals k
upper_bound_always_steps(m, k) ==
  LET it == lower_bound(m, k)
  IN  IF it # end
      THEN iterator_increment(m, it)
      ELSE [node |-> it, fault |-> NoFault]

upper_bound(m, k) ==
  LET it == lower_bound(m, k)
  IN  IF it # end /\ key(m, it) = k
      THEN iterator_increment(m, it)
      ELSE [node |-> it, fault |-> NoFault]

\* ------------------------------------------------------------- observations

RECURSIVE walk_forward(_, _, _)
\* for (it = begin(); it != end(); ++it): the nodes visited, in order; the
\* walk gives up after `fuel` nodes or on a cell that holds no node
walk_forward(m, p, fuel) ==
  IF p = tail_ \/ p = nullptr \/ fuel = 0 \/ ~m[p].live
  THEN << >>
  ELSE <<p>> \o walk_forward(m, next(m, p), fuel - 1)

RECURSIVE walk_backward(_, _, _)
\* from tail_->backward() along backward() until head_
walk_backward(m, p, fuel) ==
  IF p = head_ \/ p = nullptr \/ fuel = 0 \/ ~m[p].live
  THEN << >>
  ELSE <<p>> \o walk_backward(m, backward(m, p), fuel - 1)

ForwardNodes(m) == walk_forward(m, begin(m), Cardinality(Cells))

BackwardNodes(m) == walk_backward(m, backward(m, tail_), Cardinality(Cells))

\* the (key, value) pairs forward iteration yields
ForwardPairs(m) ==
  LET ns == ForwardNodes(m)
  IN  [i \in 1..Len(ns) |-> <<m[ns[i]].key, m[ns[i]].value>>]

StoredKeys(m) == {m[ForwardNodes(m)[i]].key : i \in 1..Len(ForwardNodes(m))}

Reverse(s) == [i \in 1..Len(s) |-> s[Len(s) + 1 - i]]

\* ------------------------------------------------------- abstract sorted map

\* a map is a function from the keys it holds to their values; an operation
\* yields the map it leaves and the flag it returns
AbsEmpty == << >>

AbsInsert(f, k, v) ==
  IF k \in DOMAIN f
  THEN [map |-> f, inserted |-> FALSE]
  ELSE [map |-> [x \in DOMAIN f \cup {k} |-> IF x = k THEN v ELSE f[x]],
        inserted |-> TRUE]

AbsAssign(f, k, v) ==
  [map |-> [x \in DOMAIN f \cup {k} |-> IF x = k THEN v ELSE f[x]],
   inserted |-> k \notin DOMAIN f]

AbsErase(f, k) ==
  [map |-> [x \in DOMAIN f \ {k} |-> f[x]], inserted |-> FALSE]

AbsClear == [map |-> AbsEmpty, inserted |-> FALSE]

RECURSIVE AbsPairsFrom(_, _)
\* the pairs of map f with key >= k, in ascending key order
AbsPairsFrom(f, k) ==
  IF k > MaxKey THEN << >>
  ELSE (IF k \in DOMAIN f THEN <<(<<k, f[k]>>)>> ELSE << >>) \o AbsPairsFrom(f, k + 1)

AbsPairs(f) == AbsPairsFrom(f, 0)

\* ------------------------------------------------------------------ actions

\* what the caller sees of a call: its name and arguments, the iterator and
\* bool it returned, size() as read before the call, and the bool the
\* abstract map returned for the same call
Call(op, k, v, p, ins, a) ==
  [op |-> op, key |-> k, value |-> v, node |-> p, inserted |-> ins,
   size0 |-> size(size_), expected |-> a.inserted]

\* a call that an assertion ended returns nothing
Aborted(op) ==
  [op |-> op, key |-> DefaultKey, value |-> DefaultValue, node |-> nullptr,
   inserted |-> FALSE, size0 |-> size(size_), expected |-> FALSE]

\* the call as the caller sees it once outcome r is known
Seen(r, call) == IF r.fault = NoFault THEN call ELSE Aborted(call.op)

\* no call yet, or the result of the latest call has been dropped
NoCall ==
  [op |-> "none", key |-> DefaultKey, value |-> DefaultValue,
   node |-> nullptr, inserted |-> FALSE, size0 |-> 0, expected |-> FALSE]

\* the program has not been ended by an assertion, and the caller is between
\* two calls
Running == fault = NoFault /\ last = NoCall

\* the heap, size_ and fault a call leaves
Effect(r) ==
  /\ mem' = r.mem
  /\ size_' = r.size_
  /\ fault' = r.fault
  /\ rnd_' = IF r.drew THEN Advanced ELSE rnd_

Init ==
  /\ mem = skiplist
  /\ size_ = 0
  /\ fault = NoFault
  /\ last = NoCall
  /\ rnd_ = Seeded
  /\ amap = AbsEmpty

\* the abstract map after a call with outcome r
AbsAfter(r, a) == IF r.fault = NoFault THEN a.map ELSE amap

Insert(k, v, draws) ==
  /\ Running
  /\ \E r \in {insert(mem, size_, k, v, draws)}, a \in {AbsInsert(amap, k, v)} :
      /\ Effect(r)
      /\ last' = Seen(r, Call("insert", k, v, r.node, r.inserted, a))
      /\ amap' = AbsAfter(r, a)

Emplace(k, v, draws) ==
  /\ Running
  /\ \E r \in {emplace(mem, size_, k, v, draws)}, a \in {AbsInsert(amap, k, v)} :
      /\ Effect(r)
      /\ last' = Seen(r, Call("emplace", k, v, r.node, r.inserted, a))
      /\ amap' = AbsAfter(r, a)

\* insert, emplace and sl[k] with an allocation that fails; the exception
\* leaves the call and, not caught by the caller, ends the program. Whether
\* an allocation fails does not depend on the height drawn, so Next tries
\* these with the draws that give height 1.
InsertBadAlloc(k, v, draws, at) ==
  /\ Running
  /\ \E r \in {insert_bad_alloc(mem, size_, k, v, draws, at)},
        a \in {AbsInsert(amap, k, v)} :
      /\ Effect(r)
      /\ last' = Seen(r, Call("insert", k, v, r.node, r.inserted, a))
      /\ amap' = AbsAfter(r, a)

EmplaceBadAlloc(k, v, draws, at) ==
  /\ Running
  /\ \E r \in {emplace_impl_bad_alloc(mem, size_, k, v, draws, at)},
        a \in {AbsInsert(amap, k, v)} :
      /\ Effect(r)
      /\ last' = Seen(r, Call("emplace", k, v, r.node, r.inserted, a))
      /\ amap' = AbsAfter(r, a)

SubscriptBadAlloc(k, draws, at) ==
  /\ Running
  /\ \E r \in {insert_bad_alloc(mem, size_, k, DefaultValue, draws, at)},
        a \in {AbsInsert(amap, k, DefaultValue)} :
      /\ Effect(r)
      /\ last' = Seen(r, Call("subscript", k,
                              IF r.fault = NoFault THEN r.mem[r.node].value
                                                   ELSE DefaultValue,
                              r.node, r.inserted, a))
      /\ amap' = AbsAfter(r, a)

\* x = sl[k]
SubscriptRead(k, draws) ==
  /\ Running
  /\ \E r \in {subscript(mem, size_, k, draws)}, a \in {AbsInsert(amap, k, DefaultValue)} :
      /\ Effect(r)
      /\ last' = Seen(r, Call("subscript", k,
                              IF r.fault = NoFault THEN r.mem[r.node].value
                                                   ELSE DefaultValue,
                              r.node, r.inserted, a))
      /\ amap' = AbsAfter(r, a)

\* sl[k] = v
SubscriptAssign(k, v, draws) ==
  /\ Running
  /\ \E r \in {subscript(mem, size_, k, draws)}, a \in {AbsAssign(amap, k, v)} :
      /\ mem' = IF r.fault = NoFault
                THEN [r.mem EXCEPT ![r.node].value = v]
                ELSE r.mem
      /\ size_' = r.size_
      /\ fault' = r.fault
      /\ rnd_' = IF r.drew THEN Advanced ELSE rnd_
      /\ last' = Seen(r, Call("assign", k, v, r.node, r.inserted, a))
      /\ amap' = AbsAfter(r, a)

EraseKey(k) ==
  /\ Running
  /\ \E r \in {erase(mem, size_, k)}, a \in {AbsErase(amap, k)} :
      /\ Effect(r)
      /\ last' = Seen(r, Call("erase", k, DefaultValue, r.node, FALSE, a))
      /\ amap' = AbsAfter(r, a)

\* the iterators of this container a caller can hold: stored nodes and end()
Iterators == {ForwardNodes(mem)[i] : i \in 1..Len(ForwardNodes(mem))} \cup {end}

\* erase(it) for an iterator of this container
EraseIterator(it) ==
  /\ Running
  /\ it \in Iterators
  /\ \E r \in {erase_iterator(mem, size_, it)}, a \in {AbsErase(amap, key(mem, it))} :
      /\ Effect(r)
      /\ last' = Seen(r, Call("erase_iterator", key(mem, it), DefaultValue, r.node, FALSE, a))
      /\ amap' = AbsAfter(r, a)

Clear ==
  /\ Running
  /\ \E r \in {clear(mem, size_)} :
      /\ Effect(r)
      /\ last' = Seen(r, Call("clear", DefaultKey, DefaultValue, r.node, FALSE, AbsClear))
      /\ amap' = AbsAfter(r, AbsClear)

\* a call that reads only: the abstract map is left as it is
AbsRead == [map |-> amap, inserted |-> FALSE]

Find(k) ==
  /\ Running
  /\ last' = Call("find", k, DefaultValue, find(mem, k), FALSE, AbsRead)
  /\ UNCHANGED <<mem, size_, fault, rnd_, amap>>

LowerBound(k) ==
  /\ Running
  /\ last' = Call("lower_bound", k, DefaultValue, lower_bound(mem, k), FALSE, AbsRead)
  /\ UNCHANGED <<mem, size_, fault, rnd_, amap>>

UpperBound(k) ==
  /\ Running
  /\ \E r \in {upper_bound(mem, k)} :
      /\ last' = Seen(r, Call("upper_bound", k, DefaultValue, r.node, FALSE, AbsRead))
      /\ fault' = r.fault
      /\ UNCHANGED <<mem, size_, rnd_, amap>>

Begin ==
  /\ Running
  /\ last' = Call("begin", DefaultKey, DefaultValue, begin(mem), FALSE, AbsRead)
  /\ UNCHANGED <<mem, size_, fault, rnd_, amap>>

End ==
  /\ Running
  /\ last' = Call("end", DefaultKey, DefaultValue, end, FALSE, AbsRead)
  /\ UNCHANGED <<mem, size_, fault, rnd_, amap>>

\* the calls that return an iterator, and the steps that leave one
IteratorOps ==
  {"insert", "emplace", "find", "lower_bound", "upper_bound",
   "begin", "end", "++", "--"}

\* the caller holds the iterator the latest call returned, in last.node
HoldsIterator == fault = NoFault /\ last.op \in IteratorOps

\* ++it on the iterator held
Increment ==
  /\ HoldsIterator
  /\ \E r \in {iterator_increment(mem, last.node)} :
      /\ last' = Seen(r, Call("++", DefaultKey, DefaultValue, r.node, FALSE, AbsRead))
      /\ fault' = r.fault
  /\ UNCHANGED <<mem, size_, rnd_, amap>>

\* --it on the iterator held
Decrement ==
  /\ HoldsIterator
  /\ \E r \in {iterator_decrement(mem, last.node)} :
      /\ last' = Seen(r, Call("--", DefaultKey, DefaultValue, r.node, FALSE, AbsRead))
      /\ fault' = r.fault
  /\ UNCHANGED <<mem, size_, rnd_, amap>>

\* *it (or it->) on the iterator held: last records the pair it yields
Dereference ==
  /\ HoldsIterator
  /\ last.node # nullptr
  /\ \E pair \in {iterator_deref(mem, last.node)} :
      last' = Call("*", pair[1], pair[2], last.node, FALSE, AbsRead)
  /\ UNCHANGED <<mem, size_, fault, rnd_, amap>>

\* the caller's statement ends: the returned iterator (or pair, or reference)
\* goes out of scope, which leaves the container as it is
Discard ==
  /\ fault = NoFault
  /\ last # NoCall
  /\ last' = NoCall
  /\ UNCHANGED <<mem, size_, fault, rnd_, amap>>

\* one call of the public interface with its arguments, or the end of the
\* caller's statement
Next ==
  \/ \E k \in Keys, v \in Values, d \in DrawSeqs : Insert(k, v, d)
  \/ \E k \in Keys, v \in Values, d \in DrawSeqs : Emplace(k, v, d)
  \/ \E k \in Keys, d \in DrawSeqs : SubscriptRead(k, d)
  \/ \E k \in Keys, v \in Values, d \in DrawSeqs : SubscriptAssign(k, v, d)
  \/ \E k \in Keys, v \in Values, at \in AllocationPoints :
       InsertBadAlloc(k, v, DrawRun(0), at)
  \/ \E k \in Keys, v \in Values, at \in AllocationPoints :
       EmplaceBadAlloc(k, v, DrawRun(0), at)
  \/ \E k \in Keys, at \in AllocationPoints :
       SubscriptBadAlloc(k, DrawRun(0), at)
  \/ \E k \in Keys : EraseKey(k)
  \/ \E it \in Cells : EraseIterator(it)
  \/ Clear
  \/ \E k \in Keys : Find(k)
  \/ \E k \in Keys : LowerBound(k)
  \/ \E k \in Keys : UpperBound(k)
  \/ Begin
  \/ End
  \/ Increment
  \/ Decrement
  \/ Dereference
  \/ Discard

Spec == Init /\ [][Next]_vars

\* ------------------------------------------------------------------- claims

\* an iterator dereferences to the pair of its node
Deref(m, it) == <<m[it].key, m[it].value>>

\* the smallest element of a non-empty set of keys
Least(S) == CHOOSE x \in S : \A y \in S : x <= y

\* the call just made returned (no assertion ended it)
Returned(op) == last.op = op /\ fault = NoFault

\* C1: following forward(0) from head_ reaches tail_ through keys in strictly
\* ascending order; following backward() from tail_ visits the same nodes in
\* the reverse order and ends at the node whose backward() is head_.
C1_OrderedBothWays ==
  LET fw == ForwardNodes(mem)
      bw == BackwardNodes(mem)
  IN  /\ next(mem, IF fw = << >> THEN head_ ELSE fw[Len(fw)]) = tail_
      /\ \A i \in 1..(Len(fw) - 1) : key(mem, fw[i]) < key(mem, fw[i + 1])
      /\ bw = Reverse(fw)
      /\ backward(mem, IF bw = << >> THEN tail_ ELSE bw[Len(bw)]) = head_

\* three nodes are linked, the latest inserted between the other two
C1_Witness ==
  /\ Returned("insert") /\ last.inserted
  /\ Len(ForwardNodes(mem)) = 3
  /\ ForwardNodes(mem)[2] = last.node
  /\ height(mem, last.node) = 2

\* C2: size() is the number of nodes one forward traversal from begin() to
\* end() visits, and empty() holds exactly when that number is 0.
C2_SizeCountsNodes ==
  /\ size(size_) = Len(ForwardNodes(mem))
  /\ empty(size_) <=> Len(ForwardNodes(mem)) = 0

\* a clear has just emptied a container of three
C2_Witness ==
  /\ Returned("clear")
  /\ last.size0 = 3
  /\ size(size_) = 0
  /\ empty(size_)

\* C3: forward iteration yields the pairs of the abstract sorted map driven
\* by the same calls, and insert and emplace return the flag it returns.
C3_RefinesSortedMap ==
  /\ ForwardPairs(mem) = AbsPairs(amap)
  /\ last.op \in {"insert", "emplace"} => last.inserted = last.expected

\* an emplace of a stored key has been turned down while two pairs are held
C3_Witness ==
  /\ Returned("emplace") /\ ~last.inserted /\ ~last.expected
  /\ Len(ForwardPairs(mem)) = 2
  /\ ForwardPairs(mem) = AbsPairs(amap)

\* C4: insert or emplace of a key that is already stored returns false and
\* an iterator to the existing node, and leaves size_, every stored pair and
\* every link as they were.
C4_DuplicateChangesNothing ==
  [][(/\ last'.op \in {"insert", "emplace"}
      /\ fault' = NoFault
      /\ last'.key \in StoredKeys(mem))
     => (/\ last'.inserted = FALSE
         /\ last'.node = find(mem, last'.key)
         /\ last'.node # end
         /\ mem' = mem
         /\ size_' = size_)]_vars

\* an emplace of a stored key, with another value than the stored one
C4_Witness ==
  /\ Returned("emplace") /\ ~last.inserted
  /\ last.node # nullptr
  /\ key(mem, last.node) = last.key
  /\ mem[last.node].value # last.value
  /\ size(size_) = 2

\* find(k) returns an iterator that is not end() and dereferences to (k, v)
FindIs(m, k, v) ==
  LET it == find(m, k)
  IN  it # end /\ Deref(m, it) = <<k, v>>

\* the step is a call that erases k, clears, or (if `writes`) assigns to sl[k]
Intervenes(k, writes) ==
  \/ last'.op \in {"erase", "erase_iterator"} /\ last'.key = k
  \/ last'.op = "clear"
  \/ writes /\ last'.op = "assign" /\ last'.key = k

\* if find(k) dereferences to a pair (k, v) before the step, it dereferences
\* to the same pair after it
FindKeeps(k) ==
  \/ mem' = mem
  \/ LET it == find(mem, k)
     IN  it # end => FindIs(mem', k, mem[it].value)

\* C5 as claimed: once insert(k, v) has returned, find(k) dereferences to
\* (k, v), and keeps doing so until an erase of k or a clear.
C5_AsClaimed ==
  [][/\ (last'.op = "insert" /\ fault' = NoFault)
          => FindIs(mem', last'.key, last'.value)
     /\ \A k \in Keys : ~Intervenes(k, FALSE) => FindKeeps(k)]_vars

\* C5 as amended: once insert(k, v) has returned inserted = true, find(k)
\* dereferences to (k, v), and keeps doing so until an erase of k, a clear,
\* or an assignment to the value stored under k.
C5_FindAfterInsert ==
  [][/\ (last'.op = "insert" /\ fault' = NoFault /\ last'.inserted)
          => FindIs(mem', last'.key, last'.value)
     /\ \A k \in Keys : ~Intervenes(k, TRUE) => FindKeeps(k)]_vars

\* an insert has just stored a pair beside two others, and find gives it back
C5_Witness ==
  /\ Returned("insert") /\ last.inserted
  /\ size(size_) = 3
  /\ FindIs(mem, last.key, last.value)

\* the pairs of sequence ps whose key is not k
WithoutKey(ps, k) ==
  LET Keep(pair) == pair[1] # k
  IN  SelectSeq(ps, Keep)

\* C6: erase(k) of a stored key k leaves find(k) = end(), size() one less,
\* and every other pair in place, in the same order.
C6_EraseRemovesExactlyOne ==
  [][(last'.op = "erase" /\ last'.key \in StoredKeys(mem))
     => (/\ find(mem', last'.key) = end
         /\ size_' = size_ - 1
         /\ ForwardPairs(mem') = WithoutKey(ForwardPairs(mem), last'.key)
         /\ Len(ForwardPairs(mem')) = Len(ForwardPairs(mem)) - 1)]_vars

\* the middle one of three keys has just been erased
C6_Witness ==
  /\ Returned("erase")
  /\ last.size0 = 3 /\ size(size_) = 2
  /\ last.key = 1
  /\ StoredKeys(mem) = {0, 2}

\* C7: erase(k) of a key that is not stored changes no node, no link and not
\* size_.
C7_EraseAbsentChangesNothing ==
  [][(last'.op = "erase" /\ last'.key \notin StoredKeys(mem))
     => (mem' = mem /\ size_' = size_)]_vars

\* an erase of a key above every stored key has just left the size as it was
C7_Witness ==
  /\ Returned("erase")
  /\ last.size0 = size(size_)
  /\ StoredKeys(mem) # {}
  /\ \A s \in StoredKeys(mem) : s < last.key

\* it is the linked node holding the smallest stored key in S, or end() when
\* S is empty
IsLeastOf(it, S) ==
  IF S = {} THEN it = end
  ELSE /\ it # end
       /\ \E i \in 1..Len(ForwardNodes(mem)) : ForwardNodes(mem)[i] = it
       /\ key(mem, it) = Least(S)

IsLowerBound(it, k) == IsLeastOf(it, {s \in StoredKeys(mem) : s >= k})

IsUpperBound(it, k) == IsLeastOf(it, {s \in StoredKeys(mem) : s > k})

\* C8: lower_bound(k) is the node of the smallest stored key >= k, and end()
\* exactly when no stored key is >= k.
C8_LowerBound ==
  /\ last = NoCall => \A k \in Keys : IsLowerBound(lower_bound(mem, k), k)
  /\ Returned("lower_bound") => IsLowerBound(last.node, last.key)

\* lower_bound of a key that is not stored has returned the next larger
\* key's node, with a smaller key stored as well
C8_Witness ==
  /\ Returned("lower_bound")
  /\ last.node # end
  /\ key(mem, last.node) > last.key
  /\ \E s \in StoredKeys(mem) : s < last.key

\* C9: upper_bound(k) is the node of the smallest stored key > k, and end()
\* exactly when no stored key is > k; no iterator assertion fails in it.
C9_UpperBound ==
  /\ last.op = "upper_bound" => fault = NoFault
  /\ last = NoCall =>
       \A k \in Keys :
         LET r == upper_bound(mem, k)
         IN  r.fault = NoFault /\ IsUpperBound(r.node, k)
  /\ Returned("upper_bound") => IsUpperBound(last.node, last.key)

\* upper_bound of the largest stored key has returned end()
C9_Witness ==
  /\ Returned("upper_bound")
  /\ last.node = end
  /\ last.key \in StoredKeys(mem)
  /\ size(size_) = 2

\* C10: random_height returns a height below kMaxHeight whatever rnd_ draws,
\* so its assertion never fails.
C10_HeightBelowMax == fault # "random_height"

\* C11 as claimed: after clear() the container is in exactly the state the
\* constructor leaves: size 0, the heap of a new container (both sentinels
\* linked to each other at every level, no other node allocated), and every
\* other member, rnd_ included, as constructed.
C11_AsClaimed ==
  Returned("clear") =>
    /\ size(size_) = 0
    /\ mem = skiplist
    /\ rnd_ = Seeded

\* C11 as amended: after clear() size_ and the heap are those of a newly
\* constructed container; rnd_ is not reseeded and stays as it was.
C11_ClearRestoresStructure ==
  [][last'.op = "clear" =>
       /\ fault' = NoFault
       /\ size_' = 0
       /\ mem' = skiplist
       /\ \A i \in 0..(kMaxHeight - 1) : forward(mem', head_, i) = tail_
       /\ backward(mem', tail_) = head_
       /\ \A c \in Cells \ {head_, tail_} : ~mem'[c].live
       /\ rnd_' = rnd_]_vars

\* a clear has just freed three nodes, the generator having been used
C11_Witness ==
  /\ Returned("clear")
  /\ last.size0 = 3
  /\ mem = skiplist
  /\ rnd_ = Advanced

\* C12: clear() of an empty container fails no assertion, frees nothing and
\* leaves the container empty with the sentinel links it had.
C12_ClearIsIdempotent ==
  [][(last'.op = "clear" /\ empty(size_)) =>
       /\ fault' = NoFault
       /\ mem' = mem
       /\ empty(size_')
       /\ ForwardNodes(mem') = << >>]_vars

\* an empty container that had held nodes before has just been cleared
C12_Witness ==
  /\ Returned("clear")
  /\ last.size0 = 0
  /\ empty(size_)
  /\ rnd_ = Advanced

\* C13: ++ on an iterator at end() and -- on an iterator at begin() (end()
\* of an empty container included) fail an assertion; every other step
\* lands on a stored node or on end(), so an iterator the container returned
\* never comes to hold head_ or tail_'s null successor.
C13_StepsStayInRange ==
  [][/\ last'.op = "++" =>
          IF last.node = end
          THEN fault' = "operator++: node_ != tail_"
          ELSE fault' = NoFault /\ last'.node \in Iterators
     /\ last'.op = "--" =>
          IF last.node = begin(mem)
          THEN fault' = "operator--: node_->backward() != head_"
          ELSE fault' = NoFault /\ last'.node \in Iterators
     /\ HoldsIterator' => last'.node \notin {head_, nullptr}]_vars

\* -- on begin() of a container that holds nodes has failed its assertion
C13_Witness ==
  /\ last.op = "--"
  /\ fault = "operator--: node_->backward() != head_"
  /\ size(size_) = 2

\* C14: * or -> on an iterator equal to end() fails an assertion and hands
\* no pair to the caller.
C14_DerefEndFaults == (last.op = "*" /\ last.node = end) => fault # NoFault

\* the position of x in sequence sq (0 when it is not in it)
IndexOf(sq, x) ==
  IF \E i \in 1..Len(sq) : sq[i] = x
  THEN CHOOSE i \in 1..Len(sq) : sq[i] = x
  ELSE 0

\* iterator it, which was on a node other than `erased`, is as good after the
\* step as before: on an allocated, linked node (or end()), dereferencing to
\* the same pair, with ++ and -- reaching its neighbours in the new order
SurvivesErase(it, erased) ==
  LET Kept(n) == n # erased
      after == SelectSeq(ForwardNodes(mem), Kept) \o <<end>>
      j == IndexOf(after, it)
      up == iterator_increment(mem', it)
      down == iterator_decrement(mem', it)
  IN  /\ mem'[it].live
      /\ ForwardNodes(mem') \o <<end>> = after
      /\ j > 0
      /\ it # end => iterator_deref(mem', it) = iterator_deref(mem, it)
      /\ it # end => up.fault = NoFault /\ up.node = after[j + 1]
      /\ IF j = 1
         THEN down.fault = "operator--: node_->backward() != head_"
         ELSE down.fault = NoFault /\ down.node = after[j - 1]

\* C15: erase of a stored key k leaves every iterator that was on another
\* node, or on end(), valid: same node, still allocated and linked, same
\* pair, and ++ and -- lead to its neighbours in the order after the erase.
C15_EraseKeepsOtherIterators ==
  [][(last'.op = "erase" /\ last'.key \in StoredKeys(mem)) =>
       \A it \in Iterators \ {find(mem, last'.key)} :
         SurvivesErase(it, find(mem, last'.key))]_vars

\* the first of three keys has been erased; begin() is now the former second
C15_Witness ==
  /\ Returned("erase")
  /\ last.size0 = 3 /\ size(size_) = 2
  /\ last.key = 0
  /\ StoredKeys(mem) = {1, 2}
  /\ backward(mem, begin(mem)) = head_

\* C16: erase(it), for an iterator it other than end(), does to the container
\* what erase(it->first) does, and returns an iterator to the node that
\* followed the erased one (end() after the last), which is allocated and
\* linked.
C16_EraseIteratorReturnsNext ==
  [][(last'.op = "erase_iterator" /\ fault' = NoFault) =>
       LET it == find(mem, last'.key)
           r == erase(mem, size_, last'.key)
       IN  /\ it # end
           /\ mem' = r.mem
           /\ size_' = r.size_
           /\ last'.node = next(mem, it)
           /\ last'.node \in Iterators']_vars

\* draws of rnd_() that give random_height the height node p has after the step
DrawsOf(p) == DrawRun(height(mem', p) - 1)

\* the heap and size_ after the step are what insert(k, DefaultValue) leaves,
\* but for value w stored under k
AsInsertOfDefault(k, w) ==
  LET r == insert(mem, size_, k, DefaultValue, DrawsOf(last'.node))
  IN  /\ r.fault = NoFault
      /\ size_' = r.size_
      /\ mem' = [r.mem EXCEPT ![r.node].value = w]

\* C17: sl[k] does what insert(k, default value) does and yields the stored
\* value: an absent k is stored with the default value and size() grows by
\* one, a stored k keeps its value and nothing changes; an assignment
\* sl[k] = v changes the value under k and no key, link or size.
C17_SubscriptIsInsertOfDefault ==
  [][(last'.op \in {"subscript", "assign"} /\ fault' = NoFault) =>
       LET k == last'.key
           it == find(mem, k)
           w == IF it = end THEN DefaultValue ELSE mem[it].value
       IN  /\ last'.op = "subscript" =>
             /\ AsInsertOfDefault(k, w)
             /\ last'.value = w
             /\ FindIs(mem', k, w)
             /\ it # end => mem' = mem /\ size_' = size_
             /\ it = end => /\ size_' = size_ + 1
                            /\ WithoutKey(ForwardPairs(mem'), k) = ForwardPairs(mem)
           /\ last'.op = "assign" =>
             /\ AsInsertOfDefault(k, last'.value)
             /\ FindIs(mem', k, last'.value)
             /\ WithoutKey(ForwardPairs(mem'), k) = WithoutKey(ForwardPairs(mem), k)
             /\ it # end =>
                  /\ size_' = size_
                  /\ mem' = [mem EXCEPT ![it].value = last'.value]
             /\ it = end => size_' = size_ + 1]_vars

\* sl[k] = TRUE has been done for a key that was stored, beside another key
C17_Witness ==
  /\ Returned("assign") /\ ~last.inserted
  /\ last.value = TRUE
  /\ FindIs(mem, last.key, TRUE)
  /\ size(size_) = 2

\* the nodes allocated in heap m, the sentinels aside
Allocated(m) == {c \in Cells \ {head_, tail_} : m[c].live}

\* the nodes linked at level 0 in heap m
Linked(m) == {ForwardNodes(m)[i] : i \in 1..Len(ForwardNodes(m))}

\* C18: an emplace(k, v) that returns leaves the heap and size_ that
\* insert(k, v) leaves and returns the same iterator and flag; for a stored
\* k the node it built is freed: nothing is allocated that is not linked.
C18_EmplaceIsInsert ==
  [][(last'.op = "emplace" /\ fault' = NoFault) =>
       /\ LET r == insert(mem, size_, last'.key, last'.value, DrawsOf(last'.node))
          IN  /\ r.fault = NoFault
              /\ mem' = r.mem
              /\ size_' = r.size_
              /\ last'.node = r.node
              /\ last'.inserted = r.inserted
       /\ Allocated(mem') = Linked(mem')
       /\ last'.key \in StoredKeys(mem) => ~last'.inserted /\ mem' = mem]_vars

\* an emplace of a stored key has returned false, all three keys being
\* stored, with no node allocated beyond the three linked ones
C18_Witness ==
  /\ Returned("emplace") /\ ~last.inserted
  /\ size(size_) = 3
  /\ Cardinality(Allocated(mem)) = 3
  /\ ~mem[SpareCell].live

\* C19: when an allocation inside insert, emplace or operator[] fails, the
\* heap and size_ are as before the call, and no node the call allocated is
\* left allocated.
C19_BadAllocLeavesNoTrace ==
  [][fault' = "bad_alloc" =>
       /\ mem' = mem
       /\ size_' = size_
       /\ Allocated(mem') = Linked(mem')]_vars

RECURSIVE walk_level(_, _, _, _)
\* the nodes met from p along forward(i) until tail_; the walk gives up
\* after `fuel` nodes, or on a cell that holds no node or none of level i
walk_level(m, p, i, fuel) ==
  IF p = tail_ \/ p = nullptr \/ fuel = 0 \/ ~m[p].live \/ height(m, p) <= i
  THEN << >>
  ELSE <<p>> \o walk_level(m, forward(m, p, i), i, fuel - 1)

\* the chain of level i is exactly those of the stored nodes (sequence
\* `stored`) that are taller than i, in ascending key order, and ends at tail_
LevelIsExact(m, stored, i) ==
  LET chain == walk_level(m, forward(m, head_, i), i, Len(stored) + 1)
      Taller(n) == height(m, n) > i
  IN  /\ chain = SelectSeq(stored, Taller)
      /\ forward(m, IF chain = << >> THEN head_ ELSE chain[Len(chain)], i) = tail_
      /\ \A j \in 1..(Len(chain) - 1) : key(m, chain[j]) < key(m, chain[j + 1])

\* C20: at every level i below kMaxHeight the chain from head_ along
\* forward(i) ends at tail_ and visits exactly the stored nodes of height
\* above i, in ascending key order. (A state in which the caller still holds
\* a call's result has the heap of the state that follows it.)
C20_LevelsAreExact ==
  (last = NoCall \/ fault # NoFault) =>
    LET stored == ForwardNodes(mem)
    IN  \A i \in 0..(kMaxHeight - 1) : LevelIsExact(mem, stored, i)

\* a node of height 1 stands between two of height 2, which level 1 links
C20_Witness ==
  /\ last = NoCall
  /\ Len(ForwardNodes(mem)) = 3
  /\ height(mem, ForwardNodes(mem)[1]) = 2
  /\ height(mem, ForwardNodes(mem)[2]) = 1
  /\ height(mem, ForwardNodes(mem)[3]) = 2
  /\ forward(mem, ForwardNodes(mem)[1], 1) = ForwardNodes(mem)[3]

\* the last node of level i whose key is below k, or head_ when there is none
LastBelow(m, i, k) ==
  LET chain == walk_level(m, forward(m, head_, i), i, Cardinality(Cells))
      Below(n) == key(m, n) < k
      below == SelectSeq(chain, Below)
  IN  IF below = << >> THEN head_ ELSE below[Len(below)]

\* C21: for every key k, find_greater_or_equal(k) returns the first level-0
\* node with key >= k (tail_ if none); at every level i, prevs[i] is head_ or
\* the last level-i node with key < k, and prevs[i]->forward(i) is tail_ or
\* has key >= k; when k is stored in node p, prevs[i]->forward(i) = p for
\* every i < p->height().
C21_PrevsAreLevelPredecessors ==
  last = NoCall =>
    \A k \in Keys :
      LET r == find_greater_or_equal(mem, k)
      IN  /\ IsLowerBound(r.node, k)
          /\ r.node = next(mem, r.prevs[1])
          /\ \A i \in 0..(kMaxHeight - 1) :
               LET prev == r.prevs[i + 1]
                   nxt == forward(mem, prev, i)
               IN  /\ prev = LastBelow(mem, i, k)
                   /\ nxt = tail_ \/ key(mem, nxt) >= k
          /\ \A p \in Linked(mem) :
               key(mem, p) = k =>
                 \A i \in 0..(height(mem, p) - 1) : forward(mem, r.prevs[i + 1], i) = p

\* three nodes of heights 2, 1, 2 are stored; for the key of the third,
\* prevs[0] is the second node, prevs[1] the first and prevs[2] is head_
C21_Witness ==
  /\ last = NoCall
  /\ Len(ForwardNodes(mem)) = 3
  /\ LET n == ForwardNodes(mem)
         r == find_greater_or_equal(mem, key(mem, n[3]))
     IN  /\ height(mem, n[1]) = 2 /\ height(mem, n[2]) = 1 /\ height(mem, n[3]) = 2
         /\ r.node = n[3]
         /\ r.prevs[1] = n[2]
         /\ r.prevs[2] = n[1]
         /\ r.prevs[3] = head_

\* C22: between calls, however the last call ended, the allocated
\* non-sentinel nodes are exactly the nodes reachable from head_ along
\* forward(0): no unlinked node stays allocated and no linked node is freed.
C22_AllocatedAreLinked ==
  /\ Allocated(mem) = Linked(mem)
  /\ \A p \in Linked(mem) : mem[p].live

\* ------------------------------------------- the assertion of Node::forward

\* p points to a node: the call p->forward(i) or p->key() has an object
is_node(m, p) == p \in Cells /\ m[p].live

\* assert(height < forwards_.size()) of Node::forward and Node::set_forward,
\* called as p->forward(i) or p->set_forward(i, _)
forward_asserts(m, p, i) == is_node(m, p) /\ i < Len(m[p].forwards_)

RECURSIVE fge_forward_asserts(_, _, _, _)
\* the calls of forward find_greater_or_equal makes from node p at level i
\* down to level 0: p->forward(i) in the loop test, and ->key() on what it
\* returns when that is not tail_
fge_forward_asserts(m, p, i, k) ==
  /\ forward_asserts(m, p, i)
  /\ LET nxt == forward(m, p, i)
     IN  IF nxt # tail_
         THEN /\ is_node(m, nxt)
              /\ IF key(m, nxt) < k
                 THEN fge_forward_asserts(m, nxt, i, k)
                 ELSE i = 0 \/ fge_forward_asserts(m, p, i - 1, k)
         ELSE i = 0 \/ fge_forward_asserts(m, p, i - 1, k)

\* the calls of the linking loop of insert and emplace_impl for a node of
\* height h: node->set_forward(i, prevs[i]->forward(i)) and
\* prevs[i]->set_forward(i, node) for i < h
link_forward_asserts(m, node, prevs, h) ==
  \A i \in 0..(h - 1) :
    forward_asserts(m, node, i) /\ forward_asserts(m, prevs[i + 1], i)

\* the calls of forward and set_forward in insert(k, _) with the given draws
insert_forward_asserts(m, k, draws) ==
  /\ fge_forward_asserts(m, head_, max_height_ - 1, k)
  /\ LET r == find_greater_or_equal(m, k)
         h == random_height(draws)
         node == operator_new(m, k)
         m1 == [m EXCEPT ![node] = Node(h, k, DefaultValue)]
     IN  \/ r.node # tail_ /\ key(m, r.node) = k
         \/ ~random_height_asserts(h)
         \/ link_forward_asserts(m1, node, r.prevs, h)

\* the calls of forward and set_forward in emplace_impl for key k
emplace_impl_forward_asserts(m, k, draws) ==
  LET h == random_height(draws)
      node == operator_new(m, k)
      m1 == [m EXCEPT ![node] = Node(h, k, DefaultValue)]
      r == find_greater_or_equal(m1, k)
  IN  \/ ~random_height_asserts(h)
      \/ /\ fge_forward_asserts(m1, head_, max_height_ - 1, k)
         /\ \/ r.node # tail_ /\ key(m1, r.node) = k
            \/ link_forward_asserts(m1, node, r.prevs, h)

\* the calls of forward and set_forward in erase(k):
\* prevs[i]->set_forward(i, p->forward(i)) for i < p->height()
erase_forward_asserts(m, k) ==
  /\ fge_forward_asserts(m, head_, max_height_ - 1, k)
  /\ LET r == find_greater_or_equal(m, k)
         p == r.node
     IN  \/ p = tail_
         \/ key(m, p) > k
         \/ \A i \in 0..(height(m, p) - 1) :
              forward_asserts(m, r.prevs[i + 1], i) /\ forward_asserts(m, p, i)

\* head_->set_forward(i, tail_) in clear, head_->forward(0) in begin
sentinel_forward_asserts(m) ==
  \A i \in 0..(kMaxHeight - 1) : forward_asserts(m, head_, i)

\* C23: assert(height < forwards_.size()) fails in no call of forward or
\* set_forward that the traversal, insert, emplace, erase, clear or begin
\* makes from a reachable state, whatever the key and the height drawn:
\* the node called on has height > i, and what the traversal reads a key
\* from is a node (never tail_->forward(i), which is null).
C23_ForwardAssertsHold ==
  last = NoCall =>
    /\ sentinel_forward_asserts(mem)
    /\ \A k \in Keys :
         /\ fge_forward_asserts(mem, head_, max_height_ - 1, k)
         /\ erase_forward_asserts(mem, k)
         /\ \A d \in DrawSeqs :
              /\ insert_forward_asserts(mem, k, d)
              /\ emplace_impl_forward_asserts(mem, k, d)

\* between calls, a node of height 2 stands behind one of height 1 and one of
\* height 2 whose level-1 link leads to it: erasing it writes forward(1) of
\* the first node and forward(0) of the second
C23_Witness ==
  /\ last = NoCall
  /\ Len(ForwardNodes(mem)) = 3
  /\ LET n == ForwardNodes(mem)
         r == find_greater_or_equal(mem, key(mem, n[3]))
     IN  /\ height(mem, n[1]) = 2 /\ height(mem, n[2]) = 1 /\ height(mem, n[3]) = 2
         /\ forward(mem, n[1], 1) = n[3]
         /\ forward(mem, n[2], 0) = n[3]
         /\ erase_forward_asserts(mem, key(mem, n[3]))
         /\ forward_asserts(mem, r.prevs[2], 1) /\ ~forward_asserts(mem, r.prevs[1], 1)

\* --------------------------------------- the walk-based traversal (part_000)

\* the locals of the walk-based find_greater_or_equal on entry:
\* prevs.resize(max_height_); p = head_; cur_height = max_height_ - 1
walk_entry ==
  [p |-> head_, cur_height |-> max_height_ - 1,
   prevs |-> [i \in 1..max_height_ |-> nullptr], done |-> FALSE]

\* mutant: the test is next->key() > key, so the walk steps over an equal key
walk_step_past_equal(m, st, k) ==
  LET nxt == forward(m, st.p, st.cur_height)
      recorded == [st EXCEPT !.prevs[st.cur_height + 1] = st.p]
  IN  IF nxt = tail_ \/ key(m, nxt) > k
      THEN IF st.cur_height = 0
           THEN [recorded EXCEPT !.done = TRUE]
           ELSE [recorded EXCEPT !.cur_height = st.cur_height - 1]
      ELSE [st EXCEPT !.p = nxt]

\* mutant: above level 0 the predecessor is recorded but cur_height-- is missing
walk_step_no_descent(m, st, k) ==
  LET nxt == forward(m, st.p, st.cur_height)
      recorded == [st EXCEPT !.prevs[st.cur_height + 1] = st.p]
  IN  IF nxt = tail_ \/ key(m, nxt) >= k
      THEN IF st.cur_height = 0
           THEN [recorded EXCEPT !.done = TRUE]
           ELSE recorded
      ELSE [st EXCEPT !.p = nxt]

\* one iteration of while (true): record p and go down (break at level 0)
\* when next is tail_ or has key >= k, move forward otherwise
walk_step(m, st, k) ==
  LET nxt == forward(m, st.p, st.cur_height)
      recorded == [st EXCEPT !.prevs[st.cur_height + 1] = st.p]
  IN  IF nxt = tail_ \/ key(m, nxt) >= k
      THEN IF st.cur_height = 0
           THEN [recorded EXCEPT !.done = TRUE]
           ELSE [recorded EXCEPT !.cur_height = st.cur_height - 1]
      ELSE [st EXCEPT !.p = nxt]

RECURSIVE walk_loop(_, _, _)
\* while (true) { ... }: iterations until the break
walk_loop(m, st, k) ==
  IF st.done THEN st ELSE walk_loop(m, walk_step(m, st, k), k)

\* the walk-based find_greater_or_equal: return p->forward(0)
find_greater_or_equal_walk(m, k) ==
  LET st == walk_loop(m, walk_entry, k)
  IN  [node |-> forward(m, st.p, 0), prevs |-> st.prevs]

\* C24: for every key, in every heap reached, the loop-based traversal (a
\* for over the levels with an inner while) and the walk-based one (a single
\* loop that moves forward or records and descends) return the same node and
\* the same prevs.
C24_LoopAndWalkAgree ==
  last = NoCall =>
    \A k \in Keys :
      LET byLoop == find_greater_or_equal(mem, k)
          byWalk == find_greater_or_equal_walk(mem, k)
      IN  byLoop.node = byWalk.node /\ byLoop.prevs = byWalk.prevs

\* a node of height 1 and behind it one of height 2 are stored; for the
\* second one's key the walk returns it with prevs[0] the first node and
\* prevs[1] head_, as the loops do
C24_Witness ==
  /\ last = NoCall
  /\ Len(ForwardNodes(mem)) = 2
  /\ LET n == ForwardNodes(mem)
         byWalk == find_greater_or_equal_walk(mem, key(mem, n[2]))
     IN  /\ height(mem, n[1]) = 1 /\ height(mem, n[2]) = 2
         /\ byWalk.node = n[2]
         /\ byWalk.prevs[1] = n[1]
         /\ byWalk.prevs[2] = head_
         /\ byWalk = find_greater_or_equal(mem, key(mem, n[2]))

\* ------------------------------------- the traversal, one iteration at a time

\* a call of find_greater_or_equal(k) in progress: its locals, and the number
\* of iterations of its loop so far
Walk(k) ==
  [op |-> "find_greater_or_equal", key |-> k, steps |-> 0,
   p |-> walk_entry.p, cur_height |-> walk_entry.cur_height,
   prevs |-> walk_entry.prevs, done |-> walk_entry.done]

Walking == last.op = "find_greater_or_equal"

\* a public operation enters find_greater_or_equal(k)
FindGreaterOrEqual(k) ==
  /\ Running
  /\ last' = Walk(k)
  /\ UNCHANGED <<mem, size_, fault, rnd_, amap>>

\* the loop runs one iteration
WalkStep ==
  /\ fault = NoFault
  /\ Walking /\ ~last.done
  /\ last' = [walk_step(mem, last, last.key) EXCEPT !.steps = last.steps + 1]
  /\ UNCHANGED <<mem, size_, fault, rnd_, amap>>

\* a call that has returned is left behind; a traversal returns after its break
Resume ==
  /\ Walking => last.done
  /\ Discard

\* the container is filled and emptied by insert and erase, and traversed
\* step by step; the traversal reads no value, so one value is inserted
WalkNext ==
  \/ \E k \in Keys, d \in DrawSeqs : Insert(k, DefaultValue, d)
  \/ \E k \in Keys : EraseKey(k)
  \/ \E k \in Keys : FindGreaterOrEqual(k)
  \/ WalkStep
  \/ Resume

\* a call that has been entered keeps executing: the code is sequential and
\* waits for nothing
WalkSpec == Init /\ [][WalkNext]_vars /\ WF_vars(WalkStep)

\* C25: every call of find_greater_or_equal reaches its break: each
\* iteration moves to a node with a strictly larger key (head_ counting as
\* below every key), or descends one level with p unchanged, or breaks at
\* level 0; and it has run at most (stored nodes + kMaxHeight) iterations.
C25_WalkTerminates ==
  /\ [][WalkStep =>
         \/ /\ last'.cur_height = last.cur_height
            /\ last'.p \notin {last.p, head_, tail_}
            /\ last.p = head_ \/ key(mem, last.p) < key(mem, last'.p)
            /\ ~last'.done
         \/ /\ last'.cur_height = last.cur_height - 1
            /\ last'.p = last.p
            /\ ~last'.done
         \/ /\ last.cur_height = 0 /\ last'.cur_height = 0
            /\ last'.p = last.p
            /\ last'.done]_vars
  /\ [](Walking => last.steps <= size(size_) + kMaxHeight)
  /\ (Walking /\ ~last.done) ~> (Walking /\ last.done)

\* a traversal for a key above the two stored keys has reached its break
\* after 2 + kMaxHeight iterations: two moves, kMaxHeight - 1 descents and
\* the iteration that breaks
C25_Witness ==
  /\ Walking /\ last.done
  /\ size(size_) = 2
  /\ last.steps = size(size_) + kMaxHeight
  /\ last.cur_height = 0
  /\ forward(mem, last.p, 0) = tail_

====
